---- MODULE Spec2Model ----
(***************************************************************************)
(* pdf-text-extractor: the batch orchestrator (batch.py), the extraction   *)
(* pipeline and its error classifier (extractor.py), the text-layer        *)
(* synthesizer (injector.py) and the pdf-extract entry point (cli.py),     *)
(* as one state machine over a small file system.                          *)
(*                                                                         *)
(* Texts are sequences of tokens (strings); a file system is a function    *)
(* from paths to file contents; a path is a record base/sfx/ext where sfx  *)
(* counts the "_searchable" suffixes of the stem.                          *)
(***************************************************************************)
EXTENDS Integers, Sequences, FiniteSets, TLC

\* ------------------------------------------------------------------ bounds

\* pages of the largest source document
MaxPages == 2
\* batch runs that reach the execution loop (or direct extraction calls)
\* in one behaviour
MaxRuns == 2
\* environment faults in one behaviour: backend exceptions and error
\* payloads, I/O failures, OCR failures, interrupt signals
MaxFaults == 1
\* tokens put around a text to make a text that contains it
MaxEmbed == 2

\* ------------------------------------------------------------------ paths

Bases == {"a", "b"}

PdfPath(b, n) == [base |-> b, sfx |-> n, ext |-> ".pdf"]

\* Path.with_suffix(e)
WithSuffix(p, e) == [p EXCEPT !.ext = e]

\* pdf_file.with_stem(f"{pdf_file.stem}_searchable")
WithStemSearchable(p) == [p EXCEPT !.sfx = @ + 1]

\* the order of sorted(): "a.pdf" < "a_searchable.pdf" < "b.pdf"
\* ('.' sorts before '_', and the base names are single letters)
PathLess(p, q) ==
    \/ (p.base = "a" /\ q.base = "b")
    \/ (p.base = q.base /\ p.sfx < q.sfx)

RECURSIVE SortPaths(_)
SortPaths(S) ==
    IF S = {} THEN <<>>
    ELSE LET m == CHOOSE p \in S : \A q \in S \ {p} : PathLess(p, q)
         IN  <<m>> \o SortPaths(S \ {m})

\* find_pdfs: every file of the tree that matches *.pdf, sorted
find_pdfs(f) == SortPaths({p \in DOMAIN f : p.ext = ".pdf"})

\* ------------------------------------------------------------------ files

Scan(n)       == [layer |-> "scan", pages |-> n, toks |-> <<>>]
Searchable(n) == [layer |-> "searchable", pages |-> n, toks |-> <<>>]
TextFile(t)   == [layer |-> "text", pages |-> 0, toks |-> t]
\* a file that was created or truncated and not written to the end
PartialFile   == [layer |-> "partial", pages |-> 0, toks |-> <<>>]

Exists(f, p)   == p \in DOMAIN f
Whole(c)       == c.layer # "partial"
\* fitz.open succeeds
Readable(f, p) == Exists(f, p) /\ f[p].layer \in {"scan", "searchable"}

WriteFile(f, p, c) == [q \in DOMAIN f \cup {p} |-> IF q = p THEN c ELSE f[q]]
Unlink(f, p)       == [q \in DOMAIN f \ {p} |-> f[q]]

\* ------------------------------------------------------------------ texts

NL == "\n"
SP == " "
ErrPagePrefix == "[Error extracting page "
ErrorCode == "Error code:"

DigitToks == {ToString(n) : n \in 0..(MaxPages + 1)} \cup {"429"}

Signatures == {"invalid_request_error", "authentication_error",
               "permission_error", "rate_limit_error", "api_error",
               "overloaded_error", "credit balance is too low"}

\* re.IGNORECASE: tokens are compared in lower case
Lower(t) ==
    CASE t = "RATE_LIMIT_ERROR" -> "rate_limit_error"
      [] t = "ERROR CODE:"      -> "error code:"
      [] t = ErrorCode          -> "error code:"
      [] t = ErrPagePrefix      -> "[error extracting page "
      [] OTHER                  -> t

\* r'\[Error extracting page \d+:.*Error code:.*\]' ('.' matches no newline)
MatchBracketed(text) ==
    \E i \in 1..Len(text) : \E j \in (i + 3)..Len(text) : \E k \in (j + 1)..Len(text) :
        /\ Lower(text[i]) = "[error extracting page "
        /\ text[i + 1] \in DigitToks
        /\ text[i + 2] = ":"
        /\ Lower(text[j]) = "error code:"
        /\ text[k] = "]"
        /\ \A m \in (i + 3)..k : text[m] # NL

\* r'Error code: \d+'
MatchErrorCode(text) ==
    \E i \in 1..(Len(text) - 2) :
        /\ Lower(text[i]) = "error code:"
        /\ text[i + 1] = SP
        /\ text[i + 2] \in DigitToks

\* a variant that looks for the literal patterns at the start of the text
\* only (re.match for re.search)
MatchSignature_anchored(text) ==
    text # <<>> /\ Lower(text[1]) \in Signatures

\* the literal patterns
MatchSignature(text) ==
    \E i \in 1..Len(text) : Lower(text[i]) \in Signatures

contains_api_error(text) ==
    IF text = <<>> THEN FALSE
    ELSE MatchBracketed(text) \/ MatchErrorCode(text) \/ MatchSignature(text)

PageMarker(k) == "=== PAGE " \o ToString(k) \o " ==="
DocumentMarker == "=== DOCUMENT ==="

\* a variant that numbers the marker with the 0-based index
PageBlock_zero_based(i, text) == <<PageMarker(i), NL>> \o text

\* f"=== PAGE {i + 1} ===\n{text}" for the 0-based page index i
PageBlock(i, text) == <<PageMarker(i + 1), NL>> \o text

RECURSIVE JoinBlocks(_)
\* "\n\n".join(all_text)
JoinBlocks(blocks) ==
    IF blocks = <<>> THEN <<>>
    ELSE IF Len(blocks) = 1 THEN blocks[1]
    ELSE blocks[1] \o <<NL, NL>> \o JoinBlocks(Tail(blocks))

\* what str(e) can be for an exception of the backend's client
StatusMsg == <<ErrorCode, SP, "429", SP, "rate_limit_error">>
ConnMsg   == <<"Connection error.">>

\* f"[Error extracting page {page_num + 1}: {e}]"
ErrorString(page_num, msg) ==
    <<ErrPagePrefix, ToString(page_num + 1), ":", SP>> \o msg \o <<"]">>

\* if text.startswith("Text:"): text = text[5:].strip()
StripTextPrefix(text) ==
    IF text # <<>> /\ text[1] = "Text:"
    THEN IF Len(text) > 1 /\ text[2] = SP THEN SubSeq(text, 3, Len(text))
         ELSE Tail(text)
    ELSE text

\* what the remote service does on one call: it answers with a text, or the
\* client raises with a message
Responses ==
    { [raises |-> FALSE, toks |-> <<"w">>, fault |-> FALSE],
      [raises |-> FALSE, toks |-> <<"Text:", SP, "w">>, fault |-> FALSE],
      [raises |-> FALSE, toks |-> <<"w", SP, "overloaded_error">>, fault |-> TRUE],
      [raises |-> TRUE, toks |-> StatusMsg, fault |-> TRUE],
      [raises |-> TRUE, toks |-> ConnMsg, fault |-> TRUE] }

\* extract_text_from_page / extract_text_from_page_gemini
extract_text_from_page(r, page_num) ==
    IF r.raises THEN ErrorString(page_num, r.toks) ELSE StripTextPrefix(r.toks)

\* ------------------------------------------------------------------ state

VARIABLES
    cfg,        \* the options of the call; fixed over a behaviour
    fs,         \* the directory tree: path -> content
    pc,         \* where the program is
    pdf_files,  \* batch_process: the documents discovered
    i,          \* batch_process: 1-based index of the current document
    processed,  \* batch_process: counters of the summary
    skipped,
    errors,
    x,          \* extract_pdf_text_with_mode: its locals
    inj,        \* inject_text_to_pdf: its locals
    ev,         \* what the last step did (history)
    started,    \* history: documents of this run that entered the try block
    hist,       \* history: one record per finished execution loop or direct call
    faults      \* environment faults so far

vars == <<cfg, fs, pc, pdf_files, i, processed, skipped, errors, x, inj, ev,
          started, hist, faults>>

NoPath == [base |-> "", sfx |-> 0, ext |-> ""]
NoFile == [layer |-> "absent", pages |-> 0, toks |-> <<>>]
NoExc  == [type |-> "", page |-> 0, toks |-> <<>>]

\* no estimate: (total_pdfs, pdfs_to_process, pdfs_with_errors, total_pages,
\* estimated_cost) of an empty list
NoEst == [total_pdfs |-> 0, pdfs_to_process |-> 0, pdfs_with_errors |-> <<>>,
          total_pages |-> 0, estimated_cost |-> 0]

\* total_pages before its first assignment
Unbound == -1

X0 == [branch |-> "", out |-> NoPath, total_pages |-> Unbound, i |-> 0,
       text |-> <<>>, all_text |-> <<>>, all_text_plain |-> <<>>,
       calls |-> <<>>, callbacks |-> <<>>, pre |-> NoFile, writes |-> 0]

\* doc is the open document: its pages in order, each the n-th page of the
\* source, as it was or rebuilt from its image
\* ocr_doc is what the OCR pass returned, attempts the insert_text calls made
\* so far, each the 0-based page index and the position of the token
J0 == [page |-> 0, pages |-> 0, doc |-> <<>>, ocr_doc |-> <<>>, attempts |-> {}]

\* what the last step did; out, pre, writes, total_pages, calls and text are
\* those of the extraction call the step ended
\* est is what the estimation pass returned, in the step that ran it
Ev(k, e) == [kind |-> k, exc |-> e, out |-> x.out, pre |-> x.pre,
             writes |-> x.writes, total_pages |-> x.total_pages,
             calls |-> x.calls, text |-> x.text, est |-> NoEst]
Ev0 == [kind |-> "init", exc |-> NoExc, out |-> NoPath, pre |-> NoFile,
        writes |-> 0, total_pages |-> Unbound, calls |-> <<>>, text |-> <<>>,
        est |-> NoEst]
EvStep == [Ev0 EXCEPT !.kind = "step"]

ContentOf(f, p) == IF Exists(f, p) THEN f[p] ELSE NoFile

\* ------------------------------------------------------------------ options

\* batch.py main(): argparse choices, the mutually exclusive flags and the
\* API key rule (no key in OCR-only mode, where mode and format keep their
\* defaults here; a key is required for claude and gemini; for spacy and
\* local, the modes documented as needing no key, the environment holds
\* none: with a key they run as a direct call with that mode does)
BatchCfgs ==
    { c \in [entry : {"batch"}, directory : {"dir"},
             mode : {"claude", "gemini", "spacy", "local"},
             provider : {"claude"}, api_key : BOOLEAN, plain : {FALSE},
             output_format : {"markdown", "plain"}, overwrite : BOOLEAN,
             skip_existing : BOOLEAN, ocr_only : BOOLEAN, skip_ocr : BOOLEAN] :
        /\ ~(c.ocr_only /\ c.skip_ocr)
        /\ c.ocr_only => (~c.api_key /\ c.mode = "claude" /\ c.output_format = "markdown")
        /\ (~c.ocr_only /\ c.mode \in {"claude", "gemini"}) => c.api_key
        /\ c.mode \in {"spacy", "local"} => ~c.api_key }

\* a variant of main that does not ask for the key of a remote mode
main_accepts_without_key(c) ==
    /\ ~(c.ocr_only /\ c.skip_ocr)
    /\ c.directory = "dir"

\* batch.py 455-488: main goes on to batch_process; directory is "dir" for
\* a directory, "file" for a path that is no directory, "missing" for a
\* path that does not exist
main_accepts(c) ==
    /\ ~(c.ocr_only /\ c.skip_ocr)
    /\ (~c.ocr_only /\ c.mode \in {"claude", "gemini"}) => c.api_key
    /\ c.directory = "dir"

\* command lines with a bad directory, both OCR flags, or a remote mode
\* without its key
RejectedCfgs ==
    { c \in [entry : {"batch"}, directory : {"dir", "file", "missing"},
             mode : {"claude", "gemini", "spacy"},
             provider : {"claude"}, api_key : BOOLEAN, plain : {FALSE},
             output_format : {"markdown"}, overwrite : {FALSE},
             skip_existing : {TRUE}, ocr_only : BOOLEAN, skip_ocr : BOOLEAN] :
        \/ c.directory # "dir"
        \/ c.ocr_only /\ c.skip_ocr
        \/ c.mode \in {"claude", "gemini"} /\ ~c.api_key /\ ~c.ocr_only }

\* a call of extract_pdf_text_with_mode by the pdf-extract entry point or
\* by a library user: any mode string, any provider, with or without key
DirectCfgs ==
    [entry : {"direct"}, directory : {"dir"},
     mode : {"claude", "gemini", "spacy", "local", "ollama"},
     provider : {"claude", "gemini", "local"}, api_key : BOOLEAN,
     plain : BOOLEAN, output_format : {"markdown", "plain"},
     overwrite : {FALSE}, skip_existing : {FALSE}, ocr_only : {FALSE},
     skip_ocr : {TRUE}]

\* the page count of each source document
PagesOf(b) == IF b = "a" THEN MaxPages ELSE 1

RECURSIVE CleanBlocks(_)
CleanBlocks(n) ==
    IF n = 0 THEN <<>> ELSE Append(CleanBlocks(n - 1), PageBlock(n - 1, <<"w">>))

\* a transcript an earlier run completed
CleanTranscript(n) == TextFile(JoinBlocks(CleanBlocks(n)))
\* a transcript that carries a service error, as earlier versions left them
TaintedTranscript(n) ==
    TextFile(JoinBlocks(Append(CleanBlocks(n - 1),
                               PageBlock(n - 1, <<"w", SP, "rate_limit_error">>))))

\* the scans of a tree: one document, or two
Trees == {{"a"}, Bases}

Sources(T) == [p \in {PdfPath(b, 0) : b \in T} |-> Scan(PagesOf(p.base))]

\* what earlier runs may have left next to a.pdf
PriorTranscripts == {NoFile, CleanTranscript(MaxPages), TaintedTranscript(MaxPages)}

WithPrior(f, p, c) == IF c = NoFile THEN f ELSE WriteFile(f, p, c)

\* the tree before the first call: the scans, and next to a.pdf a
\* transcript of the output format (complete or flagged), for markdown also
\* the complete a.txt of an earlier plain run, and a searchable copy
InitFs(c) ==
    IF c.directory # "dir" THEN {[p \in {} |-> NoFile]} ELSE
    { WithPrior(WithPrior(WithPrior(Sources(T),
          WithSuffix(PdfPath("a", 0), ".md"), md),
          WithSuffix(PdfPath("a", 0), ".txt"), txt),
          PdfPath("a", 1), sp) :
        T \in (IF c.entry = "batch" THEN Trees ELSE {{"a"}}),
        md \in (IF c.output_format = "markdown"
                THEN PriorTranscripts ELSE {NoFile}),
        txt \in (IF c.output_format = "plain" THEN PriorTranscripts
                 ELSE IF c.entry = "batch"
                 THEN {NoFile, CleanTranscript(MaxPages)} ELSE {NoFile}),
        sp \in (IF c.entry = "batch"
                THEN {NoFile, Searchable(MaxPages)} ELSE {NoFile}) }

Init ==
    /\ cfg \in BatchCfgs \cup RejectedCfgs \cup DirectCfgs
    /\ fs \in InitFs(cfg)
    /\ pc = "idle"
    /\ pdf_files = <<>>
    /\ i = 0
    /\ processed = 0
    /\ skipped = 0
    /\ errors = 0
    /\ x = X0
    /\ inj = J0
    /\ ev = Ev0
    /\ started = 0
    /\ hist = <<>>
    /\ faults = 0

\* ------------------------------------------------------------------ paths of a document

\* batch.py 232-235
main_output_file(p) ==
    IF cfg.output_format = "markdown" THEN WithSuffix(p, ".md")
    ELSE WithSuffix(p, ".txt")

\* a variant that synthesizes over the original in overwrite mode
output_pdf_in_place(p) ==
    IF cfg.overwrite THEN p ELSE WithStemSearchable(p)

\* batch.py 237-244
output_pdf(p) ==
    IF cfg.overwrite THEN WithSuffix(p, ".pdf.tmp") ELSE WithStemSearchable(p)

final_pdf(p) == IF cfg.overwrite THEN p ELSE output_pdf(p)

pdf_file == pdf_files[i]

\* ------------------------------------------------------------------ the skip rules

\* batch.py 246-270: why the loop skips document p, or "none"
\* (a file that was truncated reads as the empty text)
SkipReason(f, p) ==
    IF /\ ~cfg.ocr_only
       /\ cfg.skip_existing
       /\ Exists(f, main_output_file(p))
       /\ ~contains_api_error(f[main_output_file(p)].toks)
    THEN "transcript"
    ELSE IF cfg.skip_existing /\ Exists(f, final_pdf(p)) /\ final_pdf(p) # p
    THEN "searchable"
    ELSE "none"

\* estimate_cost, batch.py 44-68: the estimation pass queues document p
est_should_process(f, p) ==
    IF cfg.skip_existing /\ Exists(f, WithSuffix(p, ".txt"))
    THEN contains_api_error(f[WithSuffix(p, ".txt")].toks)
    ELSE TRUE

\* batch.py 143-149: the same in OCR-only mode
ocr_should_process(f, p) ==
    LET out == IF ~cfg.overwrite THEN WithStemSearchable(p) ELSE p
    IN  ~(cfg.skip_existing /\ Exists(f, out) /\ out # p)

\* pdfs_to_process of batch.py 134 and 138-149
pdfs_to_process(f, files) ==
    Cardinality({n \in 1..Len(files) :
        IF cfg.ocr_only THEN ocr_should_process(f, files[n])
        ELSE est_should_process(f, files[n])})

\* batch.py 78 and 156: pages assumed for a document that cannot be opened
FallbackPages == 5

\* batch.py 98-103: cost per page, in units of 0.0001 dollar
CostGemini == 1
CostLocal == 0
CostClaude == 180

cost_per_page(mode) ==
    IF mode = "gemini" THEN CostGemini
    ELSE IF mode \in {"spacy", "local"} THEN CostLocal
    ELSE CostClaude

\* a variant that counts nothing for a document that cannot be opened
page_count_no_fallback(f, p) == IF Readable(f, p) THEN f[p].pages ELSE 0

\* batch.py 71-78 and 151-156: len(fitz.open(pdf_file)), or the fallback
page_count(f, p) == IF Readable(f, p) THEN f[p].pages ELSE FallbackPages

\* batch.py 47-62: the transcript checked by the estimation pass is flagged
\* (a file that cannot be read is listed too; every file here can be read)
est_has_error(f, p) ==
    /\ cfg.skip_existing
    /\ Exists(f, WithSuffix(p, ".txt"))
    /\ contains_api_error(f[WithSuffix(p, ".txt")].toks)

RECURSIVE estimate_loop(_, _, _)
\* batch.py 42-78: the loop over pdf_files, acc the values gathered so far
estimate_loop(f, files, acc) ==
    IF files = <<>> THEN acc
    ELSE LET p == Head(files) IN
         estimate_loop(f, Tail(files),
            IF est_should_process(f, p)
            THEN [acc EXCEPT !.pdfs_to_process = @ + 1,
                             !.pdfs_with_errors =
                                 IF est_has_error(f, p) THEN Append(@, p) ELSE @,
                             !.total_pages = @ + page_count(f, p)]
            ELSE acc)

\* estimate_cost, batch.py 23-107
estimate_cost(f, files) ==
    LET r == estimate_loop(f, files, [NoEst EXCEPT !.total_pdfs = Len(files)])
    IN  [r EXCEPT !.estimated_cost = r.total_pages * cost_per_page(cfg.mode)]

RECURSIVE ocr_only_loop(_, _, _)
\* batch.py 137-156: the count of OCR-only mode
ocr_only_loop(f, files, acc) ==
    IF files = <<>> THEN acc
    ELSE LET p == Head(files) IN
         ocr_only_loop(f, Tail(files),
            IF ocr_should_process(f, p)
            THEN [acc EXCEPT !.pdfs_to_process = @ + 1,
                             !.total_pages = @ + page_count(f, p)]
            ELSE acc)

\* batch.py 132-156: what the summary shows
Estimate(f, files) ==
    IF cfg.ocr_only
    THEN ocr_only_loop(f, files, [NoEst EXCEPT !.total_pdfs = Len(files)])
    ELSE estimate_cost(f, files)

\* a variant of the handlers that leaves the temporary file where it is
Cleanup_keeps(f, p) == f

\* batch.py 311-312 and 319-320: the handlers' cleanup
Cleanup(f, p) ==
    IF Exists(f, output_pdf(p)) /\ output_pdf(p) # final_pdf(p)
    THEN Unlink(f, output_pdf(p))
    ELSE f

\* ------------------------------------------------------------------ batch_process

\* found is what find_pdfs returned to the run
RunRecord(o) == [outcome |-> o, started |-> started, errors |-> errors,
                 faults |-> faults, found |-> pdf_files]

loopVars == <<pdf_files, i, processed, skipped, errors>>

\* batch.py 455-488: main reports the error and exits before batch_process
MainExit ==
    /\ pc = "idle"
    /\ cfg.entry = "batch"
    /\ ~main_accepts(cfg)
    /\ pc' = "exit"
    /\ ev' = [EvStep EXCEPT !.kind = "exit"]
    /\ UNCHANGED <<cfg, fs, loopVars, x, inj, started, hist, faults>>

\* batch.py 490-496: with --overwrite and without --yes main asks first;
\* any answer but 'yes' exits before batch_process
MainCancel ==
    /\ pc = "idle"
    /\ cfg.entry = "batch"
    /\ main_accepts(cfg)
    /\ cfg.overwrite
    /\ hist = <<>>
    /\ ev.kind = "init"
    /\ pc' = "exit"
    /\ ev' = [EvStep EXCEPT !.kind = "cancelled"]
    /\ UNCHANGED <<cfg, fs, loopVars, x, inj, started, hist, faults>>

\* batch.py 126-198: discovery, the estimation pass, the summary
\* (re-runs are explored for skip_existing = true, the resumable setting;
\* with skip_existing = false one run is explored)
BatchStart ==
    /\ pc = "idle"
    /\ cfg.entry = "batch"
    /\ main_accepts(cfg)
    /\ Len(hist) < (IF cfg.skip_existing THEN MaxRuns ELSE 1)
    /\ LET files == find_pdfs(fs) IN
        /\ pdf_files' = files
        /\ i' = 0 /\ processed' = 0 /\ skipped' = 0 /\ errors' = 0
        /\ started' = 0
        /\ IF files = <<>> \/ pdfs_to_process(fs, files) = 0
           THEN /\ pc' = "idle"
                /\ ev' = [EvStep EXCEPT !.kind = "nothing",
                                        !.est = Estimate(fs, files)]
           ELSE /\ pc' = "confirm"
                /\ ev' = [EvStep EXCEPT !.est = Estimate(fs, files)]
    /\ UNCHANGED <<cfg, fs, x, inj, hist, faults>>

\* what the user types at the prompt (or end of input, or an interrupt)
Answers == {"y", "YES", "n", "", "EOF", "^C"}

\* a variant that starts the loop whatever the answer is
Confirm_runs_anyway ==
    /\ pc = "confirm"
    /\ \E auto_confirm \in BOOLEAN : \E response \in Answers :
        /\ i' = 1
        /\ pc' = "loop"
        /\ ev' = IF auto_confirm \/ response \in {"y", "Y", "yes", "YES"}
                 THEN EvStep ELSE [EvStep EXCEPT !.kind = "declined"]
    /\ UNCHANGED <<cfg, fs, pdf_files, processed, skipped, errors, x, inj,
                   started, hist, faults>>

\* batch.py 200-226: auto_confirm, or the prompt; response.lower() must be
\* 'y' or 'yes' to go on
Confirm ==
    /\ pc = "confirm"
    /\ \E auto_confirm \in BOOLEAN : \E response \in Answers :
        IF auto_confirm \/ response \in {"y", "Y", "yes", "YES"}
        THEN /\ i' = 1
             /\ pc' = "loop"
             /\ ev' = EvStep
        ELSE /\ i' = i
             /\ pc' = "idle"
             /\ ev' = [EvStep EXCEPT !.kind = "declined"]
    /\ UNCHANGED <<cfg, fs, pdf_files, processed, skipped, errors, x, inj,
                   started, hist, faults>>

\* batch.py 246-270: the document is skipped
LoopSkip ==
    /\ pc = "loop"
    /\ i <= Len(pdf_files)
    /\ SkipReason(fs, pdf_file) # "none"
    /\ skipped' = skipped + 1
    /\ i' = i + 1
    /\ ev' = [EvStep EXCEPT !.kind = "skipped"]
    /\ UNCHANGED <<cfg, fs, pc, pdf_files, processed, errors, x, inj, started,
                   hist, faults>>

\* batch.py 272-287 and 294-297: the try block is entered
LoopEnter ==
    /\ pc = "loop"
    /\ i <= Len(pdf_files)
    /\ SkipReason(fs, pdf_file) = "none"
    /\ started' = started + 1
    /\ IF ~cfg.ocr_only
       THEN /\ pc' = "x_begin"
            /\ x' = [X0 EXCEPT !.out = main_output_file(pdf_file),
                               !.pre = ContentOf(fs, main_output_file(pdf_file))]
       ELSE /\ pc' = "inj_begin"
            /\ x' = X0
    /\ ev' = EvStep
    /\ UNCHANGED <<cfg, fs, loopVars, inj, hist, faults>>

\* batch.py 325-331: the loop is over, the summary is printed
LoopEnd ==
    /\ pc = "loop"
    /\ i > Len(pdf_files)
    /\ pc' = "idle"
    /\ hist' = Append(hist, RunRecord("complete"))
    /\ started' = 0
    /\ ev' = [EvStep EXCEPT !.kind = "complete"]
    /\ UNCHANGED <<cfg, fs, loopVars, x, inj, faults>>

\* a variant whose handler leaves the loop instead of continuing
Raise_breaks(f, e) ==
    /\ ev' = Ev("raised", e)
    /\ x' = X0
    /\ inj' = J0
    /\ fs' = IF cfg.entry = "batch" THEN Cleanup(f, pdf_file) ELSE f
    /\ errors' = IF cfg.entry = "batch" THEN errors + 1 ELSE errors
    /\ i' = i
    /\ pc' = "idle"
    /\ hist' = Append(hist, RunRecord("raised"))
    /\ UNCHANGED <<cfg, pdf_files, processed, skipped, started>>

\* batch.py 315-321 `except Exception`: the error is counted, the temporary
\* file removed, the loop continues. f is the tree when the exception is raised.
\* For a direct call the exception reaches the caller (cli.py 137-139).
Raise(f, e) ==
    /\ ev' = Ev("raised", e)
    /\ x' = X0
    /\ inj' = J0
    /\ IF cfg.entry = "batch"
       THEN /\ fs' = Cleanup(f, pdf_file)
            /\ errors' = errors + 1
            /\ i' = i + 1
            /\ pc' = "loop"
            /\ hist' = hist
       ELSE /\ fs' = f
            /\ errors' = errors
            /\ i' = i
            /\ pc' = "idle"
            /\ hist' = Append(hist, RunRecord("raised"))
    /\ UNCHANGED <<cfg, pdf_files, processed, skipped, started>>

\* a variant that goes on to the next document without counting this one
Processed_uncounted ==
    /\ processed' = processed
    /\ i' = i + 1
    /\ pc' = "loop"
    /\ UNCHANGED <<cfg, pdf_files, skipped, errors, started, hist>>

\* batch.py 306: the document is done
Processed ==
    /\ processed' = processed + 1
    /\ i' = i + 1
    /\ pc' = "loop"
    /\ UNCHANGED <<cfg, pdf_files, skipped, errors, started, hist>>

TryPcs == {"x_begin", "x_page", "x_call", "x_call_plain", "x_check", "x_local",
           "x_open", "x_write", "x_plain", "x_return",
           "inj_begin", "inj_page", "inj_save", "inj_saving", "replace"}

\* a variant whose handler goes on with the next document
Interrupt_continues ==
    /\ cfg.entry = "batch"
    /\ pc \in TryPcs \ {"inj_saving"}
    /\ faults < MaxFaults
    /\ faults' = faults + 1
    /\ fs' = Cleanup(fs, pdf_file)
    /\ i' = i + 1
    /\ pc' = "loop"
    /\ ev' = Ev("interrupted", [NoExc EXCEPT !.type = "KeyboardInterrupt"])
    /\ x' = X0
    /\ inj' = J0
    /\ UNCHANGED <<cfg, pdf_files, processed, skipped, errors, started, hist>>

\* batch.py 308-313 `except KeyboardInterrupt`: the signal is delivered
\* between two bytecodes of the try block (a save in progress ends first)
Interrupt ==
    /\ cfg.entry = "batch"
    /\ pc \in TryPcs \ {"inj_saving"}
    /\ faults < MaxFaults
    /\ faults' = faults + 1
    /\ fs' = Cleanup(fs, pdf_file)
    /\ pc' = "idle"
    /\ hist' = Append(hist, [RunRecord("interrupted") EXCEPT !.faults = faults + 1])
    /\ ev' = Ev("interrupted", [NoExc EXCEPT !.type = "KeyboardInterrupt"])
    /\ x' = X0
    /\ inj' = J0
    /\ started' = 0
    /\ UNCHANGED <<cfg, loopVars>>

\* ------------------------------------------------------------------ extract_pdf_text_with_mode

\* cli.py 117-124: pdf-extract (or a library user) calls the pipeline on a.pdf
DirectStart ==
    /\ pc = "idle"
    /\ cfg.entry = "direct"
    /\ Len(hist) < MaxRuns
    /\ pdf_files' = <<PdfPath("a", 0)>>
    /\ i' = 1
    /\ pc' = "x_begin"
    /\ x' = [X0 EXCEPT !.out = main_output_file(PdfPath("a", 0)),
                       !.pre = ContentOf(fs, main_output_file(PdfPath("a", 0)))]
    /\ ev' = EvStep
    /\ UNCHANGED <<cfg, fs, processed, skipped, errors, inj, started, hist, faults>>

\* extractor.py 243-250: provider after `if mode in ('claude', 'gemini')`
Provider == IF cfg.mode \in {"claude", "gemini"} THEN cfg.mode ELSE cfg.provider

\* extractor.py 257, 289, 323, 363: the branch the call takes
Branch ==
    IF cfg.mode = "claude" \/ Provider = "claude" THEN "claude"
    ELSE IF cfg.mode = "gemini" \/ Provider = "gemini" THEN "gemini"
    ELSE IF cfg.mode \in {"spacy", "local"} THEN "local"
    ELSE "unknown"

\* plain_output_path and output_format == 'markdown' (extractor.py 278, 312)
DualOutput == cfg.plain /\ cfg.output_format = "markdown"
plain_output_path == WithSuffix(pdf_file, ".txt")

\* extractor.py 257-266 and 289-300: a remote branch rasterizes the document;
\* 323: the local branch goes to the layout pipeline
ExtractBegin ==
    /\ pc = "x_begin"
    /\ \/ /\ Branch \in {"claude", "gemini"}
          /\ cfg.api_key
          /\ Readable(fs, pdf_file)
          /\ x' = [x EXCEPT !.branch = Branch, !.total_pages = fs[pdf_file].pages]
          /\ pc' = IF fs[pdf_file].pages = 0 THEN "x_open" ELSE "x_page"
       \/ /\ Branch = "local"
          /\ x' = [x EXCEPT !.branch = Branch]
          /\ pc' = "x_local"
    /\ ev' = EvStep
    /\ UNCHANGED <<cfg, fs, loopVars, inj, started, hist, faults>>

\* extractor.py 258-259, 290-291: no key; 262, 294: the source cannot be
\* opened; 363-364: unknown mode
ExtractReject ==
    /\ pc = "x_begin"
    /\ \/ /\ Branch \in {"claude", "gemini"}
          /\ ~cfg.api_key
          /\ Raise(fs, [NoExc EXCEPT !.type = "ValueError: api_key is required"])
       \/ /\ Branch \in {"claude", "gemini"}
          /\ cfg.api_key
          /\ ~Readable(fs, pdf_file)
          /\ Raise(fs, [NoExc EXCEPT !.type = "FileDataError"])
       \/ /\ Branch = "unknown"
          /\ Raise(fs, [NoExc EXCEPT !.type = "ValueError: Unknown extraction mode"])
    /\ UNCHANGED faults

\* extractor.py 271-272, 305-306: progress_callback(i + 1, total_pages)
PageProgress ==
    /\ pc = "x_page"
    /\ x' = [x EXCEPT !.callbacks = Append(@, x.i + 1)]
    /\ pc' = "x_call"
    /\ ev' = EvStep
    /\ UNCHANGED <<cfg, fs, loopVars, inj, started, hist, faults>>

\* extractor.py 274-275, 308-309: the backend is called for page i + 1
PageCall ==
    /\ pc = "x_call"
    /\ \E r \in Responses :
        /\ r.fault => faults < MaxFaults
        /\ faults' = IF r.fault THEN faults + 1 ELSE faults
        /\ x' = [x EXCEPT !.text = extract_text_from_page(r, x.i),
                          !.all_text = Append(@, PageBlock(x.i, extract_text_from_page(r, x.i))),
                          !.calls = Append(@, x.i + 1)]
    /\ pc' = IF DualOutput THEN "x_call_plain" ELSE "x_check"
    /\ ev' = EvStep
    /\ UNCHANGED <<cfg, fs, loopVars, inj, started, hist>>

\* extractor.py 278-280, 312-314: the second call, for the plain version
PageCallPlain ==
    /\ pc = "x_call_plain"
    /\ \E r \in Responses :
        /\ r.fault => faults < MaxFaults
        /\ faults' = IF r.fault THEN faults + 1 ELSE faults
        /\ x' = [x EXCEPT !.all_text_plain = Append(@, PageBlock(x.i, extract_text_from_page(r, x.i))),
                          !.calls = Append(@, x.i + 1)]
    /\ pc' = "x_check"
    /\ ev' = EvStep
    /\ UNCHANGED <<cfg, fs, loopVars, inj, started, hist>>

\* extractor.py 286-287, 320-321: the classifier flags the page's text
PageAbort ==
    /\ pc = "x_check"
    /\ contains_api_error(x.text)
    /\ Raise(fs, [type |-> "RuntimeError: API error detected on page",
                  page |-> x.i + 1, toks |-> x.text])
    /\ UNCHANGED faults

\* a variant that goes on to the next page without the classifier's check
PageNext_unchecked ==
    /\ pc = "x_check"
    /\ x' = [x EXCEPT !.i = @ + 1]
    /\ pc' = IF x.i + 1 < x.total_pages THEN "x_page" ELSE "x_open"
    /\ ev' = EvStep
    /\ UNCHANGED <<cfg, fs, pdf_files, i, processed, skipped, errors, inj,
                   started, hist, faults>>

\* a variant that leaves out the page after the current one
PageNext_skips ==
    /\ pc = "x_check"
    /\ ~contains_api_error(x.text)
    /\ x' = [x EXCEPT !.i = @ + 2]
    /\ pc' = IF x.i + 2 < x.total_pages THEN "x_page" ELSE "x_open"
    /\ ev' = EvStep
    /\ UNCHANGED <<cfg, fs, loopVars, inj, started, hist, faults>>

\* extractor.py 268, 302: the loop goes on, or ends
PageNext ==
    /\ pc = "x_check"
    /\ ~contains_api_error(x.text)
    /\ x' = [x EXCEPT !.i = @ + 1]
    /\ pc' = IF x.i + 1 < x.total_pages THEN "x_page" ELSE "x_open"
    /\ ev' = EvStep
    /\ UNCHANGED <<cfg, fs, loopVars, inj, started, hist, faults>>

RECURSIVE UpTo(_)
UpTo(n) == IF n = 0 THEN <<>> ELSE Append(UpTo(n - 1), n)

\* extractor.py 325-352: the layout pipeline reads the whole document
LocalExtract ==
    /\ pc = "x_local"
    /\ Readable(fs, pdf_file)
    /\ x' = [x EXCEPT !.total_pages = fs[pdf_file].pages,
                      !.callbacks = UpTo(fs[pdf_file].pages),
                      !.all_text = <<<<DocumentMarker, NL, "w">>>>]
    /\ pc' = "x_open"
    /\ ev' = EvStep
    /\ UNCHANGED <<cfg, fs, loopVars, inj, started, hist, faults>>

\* extractor.py 354-359: spacy-layout is not installed
LocalImportError ==
    /\ pc = "x_local"
    /\ faults < MaxFaults
    /\ faults' = faults + 1
    /\ Raise(fs, [NoExc EXCEPT !.type = "ImportError"])

\* extractor.py 360-361: any other exception of the try block becomes the
\* text; total_pages is assigned at 337, after the layout call at 333
LocalFails ==
    /\ pc = "x_local"
    /\ \E after337 \in BOOLEAN :
        /\ IF Readable(fs, pdf_file)
           THEN faults < MaxFaults /\ faults' = faults + 1
           ELSE ~after337 /\ faults' = faults
        /\ x' = [x EXCEPT !.total_pages =
                              IF after337 THEN fs[pdf_file].pages ELSE Unbound,
                          !.all_text = <<<<"[Error extracting text: ", "e", "]">>>>]
    /\ pc' = "x_open"
    /\ ev' = EvStep
    /\ UNCHANGED <<cfg, fs, loopVars, inj, started, hist>>

\* extractor.py 369: open(output_path, 'w') creates or truncates the file
WriteOpen ==
    /\ pc = "x_open"
    /\ fs' = WriteFile(fs, x.out, PartialFile)
    /\ pc' = "x_write"
    /\ ev' = EvStep
    /\ UNCHANGED <<cfg, loopVars, x, inj, started, hist, faults>>

\* extractor.py 367-370: the joined text is written and the file closed
WriteBody ==
    /\ pc = "x_write"
    /\ fs' = WriteFile(fs, x.out, TextFile(JoinBlocks(x.all_text)))
    /\ x' = [x EXCEPT !.writes = @ + 1]
    /\ pc' = IF cfg.plain /\ x.all_text_plain # <<>> THEN "x_plain" ELSE "x_return"
    /\ ev' = EvStep
    /\ UNCHANGED <<cfg, loopVars, inj, started, hist, faults>>

\* extractor.py 373-376: the plain version
WritePlain ==
    /\ pc = "x_plain"
    /\ fs' = WriteFile(fs, plain_output_path, TextFile(JoinBlocks(x.all_text_plain)))
    /\ pc' = "x_return"
    /\ ev' = EvStep
    /\ UNCHANGED <<cfg, loopVars, x, inj, started, hist, faults>>

\* extractor.py 379 and batch.py 288-306: the call returns
ExtractReturn ==
    /\ pc = "x_return"
    /\ x.total_pages # Unbound
    /\ ev' = Ev("returned", NoExc)
    /\ x' = X0
    /\ IF cfg.entry = "direct"
       THEN /\ pc' = "idle"
            /\ hist' = Append(hist, RunRecord("returned"))
            /\ UNCHANGED <<i, processed>>
       ELSE IF cfg.skip_ocr
       THEN /\ processed' = processed + 1
            /\ i' = i + 1
            /\ pc' = "loop"
            /\ hist' = hist
       ELSE /\ pc' = "inj_begin"
            /\ hist' = hist
            /\ UNCHANGED <<i, processed>>
    /\ UNCHANGED <<cfg, fs, pdf_files, skipped, errors, inj, started, faults>>

\* extractor.py 379: `return total_pages, ...` with total_pages unassigned
ExtractReturnUnbound ==
    /\ pc = "x_return"
    /\ x.total_pages = Unbound
    /\ Raise(fs, [NoExc EXCEPT !.type = "UnboundLocalError"])
    /\ UNCHANGED faults

\* ------------------------------------------------------------------ inject_text_to_pdf

\* doc.delete_page(pno), pno 0-based
delete_page(doc, pno) == SubSeq(doc, 1, pno) \o SubSeq(doc, pno + 2, Len(doc))

\* a variant that appends the pages whatever start_at is
insert_pdf_appends(doc, src, start_at) == doc \o src

\* doc.insert_pdf(src, start_at=start_at): the pages of src go in front of
\* page start_at, or to the end when there is no such page
insert_pdf(doc, src, start_at) ==
    IF start_at < 0 \/ start_at >= Len(doc) THEN doc \o src
    ELSE SubSeq(doc, 1, start_at) \o src \o SubSeq(doc, start_at + 1, Len(doc))

\* page.rect of a scanned page, in points
page_rect == [x0 |-> 0, y0 |-> 0, x1 |-> 16, y1 |-> 16]

\* injector.py 42: the factor of fitz.Matrix(2, 2)
RenderScale == 2

\* page.get_pixmap(matrix=fitz.Matrix(2, 2)): the size of the raster
get_pixmap(rect) == [width |-> RenderScale * (rect.x1 - rect.x0),
                     height |-> RenderScale * (rect.y1 - rect.y0)]

\* a token of the OCR result; layout tells whether it carries page, x0, y0,
\* x1 and y1
Token(l, p, b, t) == [layout |-> l, page |-> p, x0 |-> b[1], y0 |-> b[2],
                      x1 |-> b[3], y1 |-> b[4], text |-> t]

\* a low word and a tall word inside the page, a box of no width, a box
\* inside the raster but outside the page
SmallBox == <<2, 2, 6, 6>>
TallBox == <<2, 2, 14, 14>>
FlatBox == <<4, 4, 4, 10>>
FarBox == <<20, 20, 30, 28>>

\* the results of layout_extractor(input_pdf) that are explored
OcrDocs ==
    { <<Token(FALSE, 0, SmallBox, "word"), Token(TRUE, 1, SmallBox, " "),
        Token(TRUE, 1, TallBox, "word")>>,
      <<Token(TRUE, 1, FlatBox, "word")>>,
      <<Token(TRUE, 1, FarBox, "word")>>,
      <<Token(TRUE, 1, SmallBox, "word"), Token(TRUE, 1, TallBox, "word"),
        Token(TRUE, 2, SmallBox, "word")>> }

\* str.strip() on the text of a token
strip(text) == IF text \in {"", " "} THEN "" ELSE text

\* injector.py 63-64: the token is one of page i (0-based) to insert
token_selected(token, pno) ==
    /\ token.layout /\ token.page = pno + 1
    /\ token.layout /\ strip(token.text) # ""

\* a variant with no lower limit of the font size
fontsize_unlimited(token) == 3 * (token.y1 - token.y0)

\* injector.py 69-70: max(6, bbox_height * 0.75), in quarters of a point
fontsize(token) ==
    LET bbox_height == token.y1 - token.y0
    IN  IF 3 * bbox_height > 4 * 6 THEN 3 * bbox_height ELSE 4 * 6

\* injector.py 74-80: the text run that page.insert_text adds for token t
insert_text(ocr_doc, t) ==
    [tok |-> t, point |-> <<ocr_doc[t].x0, ocr_doc[t].y1>>,
     text |-> ocr_doc[t].text, fontsize |-> fontsize(ocr_doc[t]),
     render_mode |-> 3]

\* injector.py 61-83: the runs added to a page, in the order of the tokens,
\* for the tokens of S
RECURSIVE inserted(_, _, _)
inserted(ocr_doc, S, t) ==
    IF t > Len(ocr_doc) THEN <<>>
    ELSE (IF t \in S THEN <<insert_text(ocr_doc, t)>> ELSE <<>>)
         \o inserted(ocr_doc, S, t + 1)

\* injector.py 20-36: the imports, fitz.open(input_pdf), the OCR pass
InjectBegin ==
    /\ pc = "inj_begin"
    /\ Readable(fs, pdf_file)
    /\ \E ocr_doc \in OcrDocs :
          inj' = [page |-> 0, pages |-> fs[pdf_file].pages,
                  doc |-> [k \in 1..fs[pdf_file].pages |->
                             [n |-> k, rebuilt |-> FALSE, rect |-> page_rect,
                              pix |-> [width |-> 0, height |-> 0],
                              words |-> <<>>]],
                  ocr_doc |-> ocr_doc, attempts |-> {}]
    /\ pc' = IF fs[pdf_file].pages = 0 THEN "inj_save" ELSE "inj_page"
    /\ ev' = EvStep
    /\ UNCHANGED <<cfg, fs, loopVars, x, started, hist, faults>>

\* injector.py 24-28, 31, 36: ImportError, an unreadable source, an OCR failure
InjectFails ==
    /\ pc = "inj_begin"
    /\ IF Readable(fs, pdf_file)
       THEN faults < MaxFaults /\ faults' = faults + 1
       ELSE faults' = faults
    /\ Raise(fs, [NoExc EXCEPT !.type = "InjectError"])

\* injector.py 42-49: the page made of the image of page alone
new_page(page) ==
    [n |-> page.n, rebuilt |-> TRUE, rect |-> page.rect,
     pix |-> get_pixmap(page.rect), words |-> <<>>]

\* the positions of the tokens that the loop of page pno inserts
SelectedTokens(ocr_doc, pno) ==
    { t \in 1..Len(ocr_doc) : token_selected(ocr_doc[t], pno) }

\* a variant in which a failing insert_text ends the call with its exception
InjectPage_raises ==
    /\ pc = "inj_page"
    /\ inj.page < Len(inj.doc)
    /\ \E F \in SUBSET SelectedTokens(inj.ocr_doc, inj.page) :
          /\ faults + Cardinality(F) <= MaxFaults
          /\ faults' = faults + Cardinality(F)
          /\ IF F # {}
             THEN Raise(fs, [NoExc EXCEPT !.type = "InsertError"])
             ELSE LET temp_doc == <<new_page(inj.doc[inj.page + 1])>>
                      doc == insert_pdf(delete_page(inj.doc, inj.page), temp_doc, inj.page)
                      S == SelectedTokens(inj.ocr_doc, inj.page)
                  IN  /\ inj' = [inj EXCEPT
                                   !.page = @ + 1,
                                   !.doc = [doc EXCEPT ![inj.page + 1].words =
                                              @ \o inserted(inj.ocr_doc, S, 1)],
                                   !.attempts = @ \cup {<<inj.page, t>> : t \in S}]
                      /\ pc' = IF inj.page + 1 < Len(doc) THEN "inj_page" ELSE "inj_save"
                      /\ ev' = EvStep
                      /\ UNCHANGED <<cfg, fs, loopVars, x, started, hist>>

\* injector.py 39-83: page i is rebuilt from its image and the words of the
\* page are inserted into doc[i]; F are the tokens whose insert_text raises
InjectPage ==
    /\ pc = "inj_page"
    /\ inj.page < Len(inj.doc)
    /\ \E F \in SUBSET SelectedTokens(inj.ocr_doc, inj.page) :
          /\ faults + Cardinality(F) <= MaxFaults
          /\ faults' = faults + Cardinality(F)
          /\ LET temp_doc == <<new_page(inj.doc[inj.page + 1])>>
                 doc == insert_pdf(delete_page(inj.doc, inj.page), temp_doc, inj.page)
                 S == SelectedTokens(inj.ocr_doc, inj.page)
             IN  /\ inj' = [inj EXCEPT
                              !.page = @ + 1,
                              !.doc = [doc EXCEPT ![inj.page + 1].words =
                                         @ \o inserted(inj.ocr_doc, S \ F, 1)],
                              !.attempts = @ \cup {<<inj.page, t>> : t \in S}]
                 /\ pc' = IF inj.page + 1 < Len(doc) THEN "inj_page" ELSE "inj_save"
    /\ ev' = EvStep
    /\ UNCHANGED <<cfg, fs, loopVars, x, started, hist>>

\* injector.py 87: doc.save opens output_pdf for writing
SaveOpen ==
    /\ pc = "inj_save"
    /\ fs' = WriteFile(fs, output_pdf(pdf_file), PartialFile)
    /\ pc' = "inj_saving"
    /\ ev' = EvStep
    /\ UNCHANGED <<cfg, loopVars, x, inj, started, hist, faults>>

\* injector.py 87-90 and batch.py 300-306: the save completes; without
\* overwrite the document is done
SaveDone ==
    /\ pc = "inj_saving"
    /\ fs' = WriteFile(fs, output_pdf(pdf_file), Searchable(Len(inj.doc)))
    /\ inj' = J0
    /\ ev' = [EvStep EXCEPT !.kind = "saved"]
    /\ IF cfg.overwrite
       THEN /\ pc' = "replace"
            /\ UNCHANGED <<cfg, loopVars, started, hist>>
       ELSE Processed
    /\ UNCHANGED <<x, faults>>

\* injector.py 87: the save fails part-way (disk full, I/O error)
SaveFails ==
    /\ pc = "inj_saving"
    /\ faults < MaxFaults
    /\ faults' = faults + 1
    /\ Raise(fs, [NoExc EXCEPT !.type = "SaveError"])

\* batch.py 300-306: os.replace(output_pdf, final_pdf)
Replace ==
    /\ pc = "replace"
    /\ fs' = Unlink(WriteFile(fs, final_pdf(pdf_file), fs[output_pdf(pdf_file)]),
                    output_pdf(pdf_file))
    /\ ev' = [EvStep EXCEPT !.kind = "replaced"]
    /\ Processed
    /\ UNCHANGED <<x, inj, faults>>

\* ------------------------------------------------------------------ the program

Next ==
    \/ MainExit
    \/ MainCancel
    \/ BatchStart
    \/ Confirm
    \/ LoopSkip
    \/ LoopEnter
    \/ LoopEnd
    \/ Interrupt
    \/ DirectStart
    \/ ExtractBegin
    \/ ExtractReject
    \/ PageProgress
    \/ PageCall
    \/ PageCallPlain
    \/ PageAbort
    \/ PageNext
    \/ LocalExtract
    \/ LocalImportError
    \/ LocalFails
    \/ WriteOpen
    \/ WriteBody
    \/ WritePlain
    \/ ExtractReturn
    \/ ExtractReturnUnbound
    \/ InjectBegin
    \/ InjectFails
    \/ InjectPage
    \/ SaveOpen
    \/ SaveDone
    \/ SaveFails
    \/ Replace

Spec == Init /\ [][Next]_vars

\* ------------------------------------------------------------------ properties

Batch == cfg.entry = "batch"

\* the document the last step was about (the step moved on to the next one)
last_pdf == pdf_files[i - 1]

Tainted(f, p) == Exists(f, p) /\ contains_api_error(f[p].toks)
CleanAt(f, p) == Exists(f, p) /\ ~contains_api_error(f[p].toks)

\* the first execution loop ran to its end, no document failed in it and
\* the environment raised no fault
FirstRunClean ==
    /\ Len(hist) >= 1
    /\ hist[1].outcome = "complete"
    /\ hist[1].errors = 0
    /\ hist[1].faults = 0

\* C1 (idempotence): with skip_existing, after a first run in which no
\* document failed, a second run enters the try block for no document: no
\* backend call, no transcript write, no synthesis.
C1_Idempotence ==
    (Batch /\ cfg.skip_existing /\ FirstRunClean) =>
        /\ started = 0
        /\ Len(hist) >= 2 => hist[2].started = 0

\* C2 (recovery): with skip_existing and transcription requested, a document
\* whose transcript matches an error signature is never skipped, by the loop
\* or by the early return of the estimation pass, whatever else exists.
C2_Recovery ==
    (Batch /\ cfg.skip_existing /\ ~cfg.ocr_only) =>
        /\ ev.kind = "skipped" => ~Tainted(fs, main_output_file(last_pdf))
        /\ ev.kind = "nothing" =>
              \A n \in 1..Len(pdf_files) : ~Tainted(fs, main_output_file(pdf_files[n]))

\* C3 (atomicity in overwrite mode): a source PDF changes only by the
\* os.replace that follows a completed save, and then to the complete
\* searchable PDF; a step that raises or is interrupted leaves every source
\* as it was and leaves no temporary file of the document.
C3_Atomicity ==
    [][ (Batch /\ cfg.overwrite /\ pc \in TryPcs) =>
          /\ \A p \in DOMAIN fs :
                p.ext = ".pdf" =>
                   /\ p \in DOMAIN fs'
                   /\ fs'[p] # fs[p] =>
                         /\ pc = "replace"
                         /\ ev'.kind = "replaced"
                         /\ p = pdf_file
                         /\ fs'[p] = Searchable(fs[p].pages)
          /\ ev'.kind \in {"raised", "interrupted"} =>
                /\ ~Exists(fs', WithSuffix(pdf_file, ".pdf.tmp"))
                /\ fs'[pdf_file] = fs[pdf_file] ]_vars

\* C3 witness: in overwrite mode the save of the searchable PDF failed
\* part-way; the scan is intact and the temporary file is gone
C3_Witness ==
    /\ Batch /\ cfg.overwrite
    /\ ev.kind = "raised" /\ ev.exc.type = "SaveError"
    /\ fs[last_pdf] = Scan(PagesOf(last_pdf.base))
    /\ ~Exists(fs, WithSuffix(last_pdf, ".pdf.tmp"))

AllMarkers == {PageMarker(k) : k \in 1..(MaxPages + 1)} \cup {DocumentMarker}

IsMarker(t) == t \in AllMarkers

\* the marker lines of a transcript, in order
MarkersIn(toks) == SelectSeq(toks, IsMarker)

Remote == Branch \in {"claude", "gemini"}

XPcs == {"x_begin", "x_page", "x_call", "x_call_plain", "x_check", "x_local",
         "x_open", "x_write", "x_plain", "x_return"}

\* the page text inside the block f"=== PAGE {n} ===\n{text}"
TextOf(block) == SubSeq(block, 3, Len(block))

\* C4 (page markers): when the remote pipeline has gone through an N-page
\* document and returns, the transcript at the target holds exactly the
\* markers PAGE 1 .. PAGE N in order, whatever the page texts are; and
\* while it runs, the blocks gathered so far carry the markers 1, 2, ... in order.
C4_PageMarkers ==
    Remote =>
        /\ ev.kind = "returned" =>
              MarkersIn(fs[ev.out].toks) = [k \in 1..ev.total_pages |-> PageMarker(k)]
        /\ pc \in XPcs =>
              MarkersIn(JoinBlocks(x.all_text)) = [k \in 1..Len(x.all_text) |-> PageMarker(k)]

\* C4 witness: a document of at least two pages was transcribed and one of
\* its pages is the error string of a failed backend call
C4_Witness ==
    /\ Remote
    /\ ev.kind = "returned"
    /\ ev.total_pages >= 2
    /\ \E n \in 1..Len(fs[ev.out].toks) : fs[ev.out].toks[n] = ErrPagePrefix

Last(q) == q[Len(q)]

\* C5 (abort on the first classified error): in the remote page loop no
\* page is sent to the backend, and nothing is written, once the text of an
\* earlier page is flagged; the error raised names the flagged page, which
\* is the last page the backend was called for, and carries its text.
C5_AbortOnFirstError ==
    Remote =>
        /\ pc \in XPcs =>
              \A k \in 1..Len(x.all_text) :
                  contains_api_error(TextOf(x.all_text[k])) =>
                      /\ \A c \in 1..Len(x.calls) : x.calls[c] <= k
                      /\ pc \in {"x_call_plain", "x_check"}
        /\ (ev.kind = "raised" /\ ev.exc.type = "RuntimeError: API error detected on page") =>
              /\ ev.exc.page = Last(ev.calls)
              /\ ev.exc.toks = ev.text
              /\ contains_api_error(ev.text)
              /\ ev.writes = 0

\* C5 witness: page 1 of a longer document was flagged; the backend was
\* called for page 1 alone
C5_Witness ==
    /\ Remote
    /\ ev.kind = "raised"
    /\ ev.exc.page = 1
    /\ ev.total_pages >= 2
    /\ ev.calls = <<1>>
    /\ contains_api_error(ev.exc.toks)

\* C6 (the transcript is written once, at completion): a call that ends by
\* raising has written nothing and leaves the target as it was before the
\* call; the target is written at most once.
C6_WriteOnce ==
    /\ x.writes <= 1
    /\ (ev.kind = "raised" /\ ev.out # NoPath) =>
          /\ ev.writes = 0
          /\ ContentOf(fs, ev.out) = ev.pre

\* C7 (independent resumption): with skip_existing and both outputs
\* requested, a document is never skipped while its transcript is complete
\* and its searchable PDF is missing, nor while its searchable PDF exists and
\* its transcript is missing.
C7_IndependentResume ==
    (Batch /\ cfg.skip_existing /\ ~cfg.ocr_only /\ ~cfg.skip_ocr /\ ev.kind = "skipped") =>
        /\ ~(/\ CleanAt(fs, main_output_file(last_pdf))
             /\ ~Exists(fs, final_pdf(last_pdf)))
        /\ ~(/\ Exists(fs, final_pdf(last_pdf))
             /\ final_pdf(last_pdf) # last_pdf
             /\ ~Exists(fs, main_output_file(last_pdf)))

\* C8 (a failing document does not halt the batch): the step in which the
\* extraction or synthesis of document i raises adds exactly one to errors
\* and nothing to the other counters, leaves no temporary file of document
\* i, and puts the loop at document i + 1 of the same list; at the top of
\* the loop each document is skipped or entered by the skip rules alone;
\* and a loop that was not interrupted ends after the last document.
C8_FailureDoesNotHalt ==
    [][ Batch =>
          /\ ev'.kind = "raised" =>
                /\ errors' = errors + 1
                /\ processed' = processed
                /\ skipped' = skipped
                /\ pdf_files' = pdf_files
                /\ i' = i + 1
                /\ pc' = "loop"
                /\ ~Exists(fs', WithSuffix(pdf_file, ".pdf.tmp"))
          /\ (pc = "loop" /\ i <= Len(pdf_files) /\ SkipReason(fs, pdf_file) = "none") =>
                pc' \in {"x_begin", "inj_begin"}
          /\ (pc = "loop" /\ i <= Len(pdf_files) /\ SkipReason(fs, pdf_file) # "none") =>
                (skipped' = skipped + 1 /\ i' = i + 1 /\ pc' = "loop")
          /\ ev'.kind = "complete" => i > Len(pdf_files) ]_vars

\* C8 witness: the loop is past its last document with one document failed
\* and another one, after it, processed
C8_Witness ==
    /\ Batch
    /\ pc = "loop"
    /\ i > Len(pdf_files)
    /\ errors = 1
    /\ processed >= 1
    /\ ev.kind \in {"saved", "replaced", "returned"}

\* C9 (interrupt): the step that handles an interrupt during document i
\* ends the loop, changes no counter, and changes the tree only by removing
\* the temporary file of document i; no other file is created, modified or
\* removed, so earlier documents' outputs stay and later documents are
\* not touched.
C9_InterruptHalts ==
    [][ ev'.kind = "interrupted" =>
          /\ pc \in TryPcs
          /\ pc' = "idle"
          /\ <<processed, skipped, errors, i, pdf_files>>' =
                <<processed, skipped, errors, i, pdf_files>>
          /\ DOMAIN fs' \subseteq DOMAIN fs
          /\ \A p \in DOMAIN fs' : fs'[p] = fs[p]
          /\ \A p \in DOMAIN fs \ DOMAIN fs' :
                cfg.overwrite /\ p = WithSuffix(pdf_file, ".pdf.tmp") ]_vars

\* C9 witness: an interrupt ended the loop during a document that has a
\* processed document before it and a document after it, and the
\* temporary file of the interrupted document is gone
C9_Witness ==
    /\ ev.kind = "interrupted"
    /\ cfg.overwrite
    /\ processed >= 1
    /\ i < Len(pdf_files)
    /\ ~Exists(fs, WithSuffix(pdf_files[i], ".pdf.tmp"))
    /\ Last(hist).outcome = "interrupted"

\* C10 (no partial output): between documents and after the loop, also
\* after a failure or an interrupt, no file of the tree is partially written.
C10_NoPartialOutput ==
    (Batch /\ pc \in {"loop", "idle"}) => \A p \in DOMAIN fs : Whole(fs[p])

\* C11 (declining is a no-op): from the call of batch_process to the
\* answer at the prompt no step changes the tree or calls a backend, the
\* estimation pass included; and a declined prompt ends the call there, with
\* no document started and no counter changed.
C11_DeclineNoOp ==
    [][ Batch =>
          /\ pc \in {"idle", "confirm"} =>
                /\ fs' = fs
                /\ x' = X0 /\ inj' = J0
                /\ started' = 0
          /\ ev'.kind = "declined" =>
                /\ pc = "confirm" /\ pc' = "idle"
                /\ <<processed, skipped, errors>>' = <<0, 0, 0>>
                /\ hist' = hist ]_vars

\* C11 witness: the prompt was declined after an estimation pass that read
\* an error-tainted transcript and queued its document
C11_Witness ==
    /\ Batch
    /\ ev.kind = "declined"
    /\ pc = "idle"
    /\ Tainted(fs, WithSuffix(PdfPath("a", 0), ".txt"))
    /\ est_should_process(fs, PdfPath("a", 0))
    /\ cfg.skip_existing /\ ~cfg.ocr_only

LocalMode == cfg.mode \in {"spacy", "local"}

\* C12 (the local backend needs no API key): a call with mode spacy or
\* local, no provider passed (the default stays) and no api_key takes the
\* local branch and does not raise for the missing key.
C12_LocalNeedsNoKey ==
    (LocalMode /\ cfg.provider = "claude" /\ ~cfg.api_key) =>
        /\ ~(ev.kind = "raised" /\ ev.exc.type = "ValueError: api_key is required")
        /\ pc \in XPcs \ {"x_begin"} => x.branch = "local"

\* C13 (local mode stays local): with mode spacy or local no remote backend
\* is ever called, with or without api_key, and a transcript the call
\* returns holds the single marker DOCUMENT and no PAGE marker.
C13_LocalIsLocal ==
    LocalMode =>
        /\ x.calls = <<>>
        /\ pc \in XPcs \ {"x_begin"} => x.branch = "local"
        /\ ev.kind = "returned" => MarkersIn(fs[ev.out].toks) = <<DocumentMarker>>

\* C14 (end to end with the local backend): a batch run with mode spacy or
\* local and skip_existing = false that ran to its end without any fault of
\* the environment leaves, for every document, a transcript with the markers
\* PAGE 1 .. PAGE N in order.
C14_EndToEndLocal ==
    (/\ Batch /\ LocalMode /\ ~cfg.skip_existing /\ ~cfg.ocr_only
     /\ Len(hist) >= 1 /\ hist[1].outcome = "complete" /\ hist[1].faults = 0) =>
        \A n \in 1..Len(pdf_files) :
            LET p == pdf_files[n] IN
            /\ Exists(fs, main_output_file(p))
            /\ MarkersIn(fs[main_output_file(p)].toks) =
                  [k \in 1..fs[p].pages |-> PageMarker(k)]

InjPcs == {"inj_page", "inj_save", "inj_saving"}

\* C15 (the synthesizer keeps page count and order): all through the
\* rebuild loop the open document has the N pages of the source in their
\* order, pages 0..i-1 rebuilt and the others untouched after i iterations;
\* the saved file has N pages.
C15_InjectKeepsPages ==
    /\ pc \in InjPcs =>
          /\ inj.pages = fs[pdf_file].pages
          /\ Len(inj.doc) = inj.pages
          /\ inj.page <= inj.pages
          /\ \A k \in 1..Len(inj.doc) :
                /\ inj.doc[k].n = k
                /\ inj.doc[k].rebuilt <=> (k <= inj.page)
          /\ pc \in {"inj_save", "inj_saving"} => inj.page = inj.pages
    /\ pc = "replace" => fs[output_pdf(pdf_file)].pages = fs[pdf_file].pages
    /\ (Batch /\ ev.kind = "saved" /\ ~cfg.overwrite) =>
          fs[final_pdf(last_pdf)].pages = fs[last_pdf].pages

\* C15 witness: half-way through a document of at least two pages, the
\* first page rebuilt and the second one still the original
C15_Witness ==
    /\ pc = "inj_page"
    /\ inj.pages >= 2
    /\ inj.page = 1
    /\ inj.doc[1].rebuilt /\ ~inj.doc[2].rebuilt

\* the text is the error string a backend function returns when its call raised
IsErrorString(text) == text # <<>> /\ text[1] = ErrPagePrefix

\* C16 (every error string is classified): in the remote page loop the
\* error string returned for a page whose backend call raised is flagged by
\* contains_api_error, whatever the exception's message is; so no
\* transcript that the call returns holds such a string.
C16_ErrorStringsClassified ==
    Remote =>
        /\ (pc = "x_check" /\ IsErrorString(x.text)) => contains_api_error(x.text)
        /\ ev.kind = "returned" =>
              \A n \in 1..Len(fs[ev.out].toks) : fs[ev.out].toks[n] # ErrPagePrefix

\* ------------------------------------------------------------------ the classifier alone

\* the tokens the texts are made of
Alphabet == {ErrPagePrefix, "1", ":", SP, ErrorCode, "429", "]", NL,
             "rate_limit_error", "w"}

\* the texts the classifier is first applied to: flagged by each of the
\* patterns, and not flagged
Seeds == { <<>>, <<"w">>, <<ErrorCode>>,
           <<"rate_limit_error">>, <<"RATE_LIMIT_ERROR">>,
           <<ErrorCode, SP, "429">>,
           <<ErrPagePrefix, "1", ":", ErrorCode, "]">>,
           ErrorString(0, ConnMsg), ErrorString(0, StatusMsg) }

\* contains_api_error(text), as a position of the program
Verdict(text) == IF contains_api_error(text) THEN "flagged" ELSE "clean"

\* contains_api_error is applied to a text t: ev.text, with the result in ev.kind
InitClassifier ==
    /\ cfg = [entry |-> "classifier"]
    /\ fs = [p \in {} |-> NoFile]
    /\ \E t \in Seeds :
          /\ x = [X0 EXCEPT !.text = t]
          /\ ev = [Ev0 EXCEPT !.text = t, !.kind = Verdict(t)]
          /\ pc = Verdict(t)
    /\ pdf_files = <<>>
    /\ i = 0
    /\ processed = 0
    /\ skipped = 0
    /\ errors = 0
    /\ inj = J0
    /\ started = 0
    /\ hist = <<>>
    /\ faults = 0

\* contains_api_error is applied to a text that has x.text at its end
EmbedLeft ==
    /\ cfg.entry = "classifier"
    /\ Len(x.text) < Len(ev.text) + MaxEmbed
    /\ \E a \in Alphabet :
          /\ x' = [x EXCEPT !.text = <<a>> \o @]
          /\ pc' = Verdict(<<a>> \o x.text)
    /\ UNCHANGED <<cfg, fs, loopVars, inj, ev, started, hist, faults>>

\* contains_api_error is applied to a text that has x.text at its start
EmbedRight ==
    /\ cfg.entry = "classifier"
    /\ Len(x.text) < Len(ev.text) + MaxEmbed
    /\ \E a \in Alphabet :
          /\ x' = [x EXCEPT !.text = Append(@, a)]
          /\ pc' = Verdict(Append(x.text, a))
    /\ UNCHANGED <<cfg, fs, loopVars, inj, ev, started, hist, faults>>

NextClassifier ==
    \/ EmbedLeft
    \/ EmbedRight

SpecClassifier == InitClassifier /\ [][NextClassifier]_vars

\* C17 (the classifier is monotonic): a text that contains a flagged text
\* is flagged.
C17_Monotonic ==
    (cfg.entry = "classifier" /\ ev.kind = "flagged") => pc = "flagged"

\* C17 witness: a flagged bracketed marker with a line break put in front
\* of it and a token behind it
C17_Witness ==
    /\ cfg.entry = "classifier"
    /\ ev.kind = "flagged"
    /\ MatchBracketed(ev.text)
    /\ Len(x.text) = Len(ev.text) + 2
    /\ x.text[1] = NL
    /\ x.text[Len(x.text)] # NL
    /\ pc = "flagged"

\* ------------------------------------------------------------------ the estimation pass

\* the last step ran the estimation pass (and the early returns after it)
JustEstimated == Batch /\ (pc = "confirm" \/ ev.kind = "nothing")

\* C18 (the estimate is advisory): when a run without OCR-only ends before
\* the loop because the estimation pass counted no document, there is no
\* document that the loop's own skip check would process.
C18_EstimateAdvisory ==
    (Batch /\ ~cfg.ocr_only /\ ev.kind = "nothing") =>
        \A n \in 1..Len(pdf_files) : SkipReason(fs, pdf_files[n]) # "none"

\* C19 (the estimate looks at the transcript target): with skip_existing,
\* the estimation pass queues a document iff its transcript target, the
\* path the loop checks and writes for the output format, is absent or
\* flagged, and lists it as an error case iff the target exists and is flagged.
C19_EstimateTarget ==
    (JustEstimated /\ ~cfg.ocr_only /\ cfg.skip_existing) =>
        \A n \in 1..Len(pdf_files) :
            LET p == pdf_files[n]
                target == main_output_file(p)
            IN  /\ est_should_process(fs, p) <=> ~CleanAt(fs, target)
                /\ (\E m \in 1..Len(ev.est.pdfs_with_errors) :
                        ev.est.pdfs_with_errors[m] = p) <=> Tainted(fs, target)

\* the documents the estimation pass queues
Queued == {n \in 1..Len(pdf_files) : est_should_process(fs, pdf_files[n])}

RECURSIVE SumOver(_, _)
SumOver(S, pages) ==
    IF S = {} THEN 0
    ELSE LET n == CHOOSE m \in S : TRUE IN pages[n] + SumOver(S \ {n}, pages)

\* C20 (the cost estimate): the estimated cost is the sum, over the queued
\* documents, of the page count, or of 5 for one that cannot be opened,
\* times the constant of the mode; the constants of claude and gemini are
\* positive and differ, the constant of spacy and local is zero.
C20_CostEstimate ==
    /\ (JustEstimated /\ ~cfg.ocr_only) =>
          /\ ev.est.total_pages =
                SumOver(Queued, [n \in 1..Len(pdf_files) |->
                                    IF Readable(fs, pdf_files[n])
                                    THEN fs[pdf_files[n]].pages ELSE 5])
          /\ ev.est.pdfs_to_process = Cardinality(Queued)
          /\ ev.est.estimated_cost = ev.est.total_pages *
                (CASE cfg.mode = "claude" -> CostClaude
                   [] cfg.mode = "gemini" -> CostGemini
                   [] cfg.mode \in {"spacy", "local"} -> CostLocal)
    /\ CostClaude > 0 /\ CostGemini > 0 /\ CostClaude # CostGemini /\ CostLocal = 0

\* C20 witness: an estimate for gemini that queues a document that cannot
\* be opened, skips another one and costs something
C20_Witness ==
    /\ JustEstimated /\ ~cfg.ocr_only
    /\ cfg.mode = "gemini"
    /\ \E n \in Queued : ~Readable(fs, pdf_files[n])
    /\ Cardinality(Queued) < Len(pdf_files)
    /\ ev.est.estimated_cost > 0

\* ------------------------------------------------------------------ main

\* C21 (configuration failures are fatal before any work): for a command
\* line that names no directory, or a remote mode without its key (and not
\* OCR-only), the only step is main's exit: no document is discovered, no
\* extraction or synthesis starts, no backend is called, no file changes.
C21_ConfigFailuresFatal ==
    [][ (/\ Batch
         /\ \/ cfg.directory # "dir"
            \/ (cfg.mode \in {"claude", "gemini"} /\ ~cfg.api_key /\ ~cfg.ocr_only)) =>
          /\ pc = "idle" /\ pc' = "exit"
          /\ ev'.kind = "exit"
          /\ fs' = fs
          /\ pdf_files' = <<>>
          /\ x' = X0 /\ inj' = J0
          /\ started' = 0 ]_vars

\* C21 witness: main exited for a tree with a document in it because the
\* key of gemini was missing
C21_Witness ==
    /\ Batch
    /\ pc = "exit" /\ ev.kind = "exit"
    /\ cfg.directory = "dir"
    /\ cfg.mode = "gemini" /\ ~cfg.api_key /\ ~cfg.ocr_only
    /\ Exists(fs, PdfPath("a", 0))
    /\ pdf_files = <<>>

\* ------------------------------------------------------------------ the text layer

\* the text runs on page k of the open document
WordsOn(k) == { inj.doc[k].words[j] : j \in 1..Len(inj.doc[k].words) }

\* the text is not blank and the box has a width and a height
Eligible(token) ==
    /\ token.layout
    /\ strip(token.text) # ""
    /\ token.x1 > token.x0
    /\ token.y1 > token.y0

\* C22 (word eligibility): insert_text is called only for a token with text
\* and a box with x1 > x0 and y1 > y0.
C22_OnlyEligibleInserted ==
    \A a \in inj.attempts : Eligible(inj.ocr_doc[a[2]])

\* C23 (coordinate agreement): every text run of the open document stands on
\* the page its token names and on no other, at the anchor (x0, y1), with the
\* font size max(6, (y1 - y0) * 0.75) (in quarters: max(24, 3 * (y1 - y0)))
\* and in the invisible render mode.
C23_CoordinateAgreement ==
    pc \in InjPcs =>
        \A k \in 1..Len(inj.doc) : \A w \in WordsOn(k) :
            LET token == inj.ocr_doc[w.tok]
                h == token.y1 - token.y0
            IN  /\ token.page = k /\ inj.doc[k].n = k
                /\ \A k2 \in 1..Len(inj.doc) :
                      (\E w2 \in WordsOn(k2) : w2.tok = w.tok) => k2 = k
                /\ w.point = <<token.x0, token.y1>>
                /\ w.text = token.text
                /\ w.fontsize >= 24 /\ w.fontsize >= 3 * h
                /\ w.fontsize \in {24, 3 * h}
                /\ w.render_mode = 3

\* C23 witness: a low word on page 2 at the least font size and a tall word
\* on page 1 at three quarters of its height
C23_Witness ==
    /\ pc = "inj_save"
    /\ Len(inj.doc) = 2
    /\ \E w \in WordsOn(1) : w.fontsize = 36 /\ w.point = <<2, 14>>
    /\ \E w \in WordsOn(2) : w.fontsize = 24 /\ w.point = <<2, 6>>

\* C24 (one coordinate space): for every inserted word whose box lies inside
\* the raster of its page, the anchor lies inside the rectangle of the
\* rebuilt page and at the same relative position of the page image as the
\* word has in the raster.
C24_OneCoordinateSpace ==
    pc \in InjPcs =>
        \A k \in 1..Len(inj.doc) : \A w \in WordsOn(k) :
            LET token == inj.ocr_doc[w.tok]
                page == inj.doc[k]
            IN  (/\ Eligible(token)
                 /\ 0 <= token.x0 /\ token.x1 <= page.pix.width
                 /\ 0 <= token.y0 /\ token.y1 <= page.pix.height) =>
                    /\ page.rect.x0 <= w.point[1] /\ w.point[1] <= page.rect.x1
                    /\ page.rect.y0 <= w.point[2] /\ w.point[2] <= page.rect.y1
                    /\ (w.point[1] - page.rect.x0) * page.pix.width
                         = token.x0 * (page.rect.x1 - page.rect.x0)
                    /\ (w.point[2] - page.rect.y0) * page.pix.height
                         = token.y1 * (page.rect.y1 - page.rect.y0)

\* C25 (a failed insertion does not abort): the step of a page, whatever
\* insertions fail in it, goes on to the next page or to the save, with
\* insert_text called for every eligible word of the page; and the save
\* writes a document of the full page count after insert_text was called
\* for every eligible word of every page.
C25_InsertionFailureSwallowed ==
    [][ /\ (pc = "inj_page" /\ ev'.kind # "interrupted") =>
              /\ pc' \in {"inj_page", "inj_save"}
              /\ inj'.page = inj.page + 1
              /\ \A t \in 1..Len(inj.ocr_doc) :
                    (Eligible(inj.ocr_doc[t]) /\ inj.ocr_doc[t].page = inj.page + 1)
                        => <<inj.page, t>> \in inj'.attempts
        /\ (pc = "inj_saving" /\ ev'.kind = "saved") =>
              /\ fs'[output_pdf(pdf_file)] = Searchable(fs[pdf_file].pages)
              /\ \A t \in 1..Len(inj.ocr_doc) :
                    (Eligible(inj.ocr_doc[t]) /\ inj.ocr_doc[t].page <= inj.pages)
                        => <<inj.ocr_doc[t].page - 1, t>> \in inj.attempts ]_vars

\* C25 witness: the first word of page 1 failed, the second word of page 1
\* and the word of page 2 are in the document that is about to be saved
C25_Witness ==
    /\ pc = "inj_saving"
    /\ Len(inj.doc) = 2
    /\ <<0, 1>> \in inj.attempts
    /\ ~ \E w \in WordsOn(1) : w.tok = 1
    /\ \E w \in WordsOn(1) : w.tok = 2
    /\ \E w \in WordsOn(2) : w.tok = 3

\* ------------------------------------------------------------------ progress

\* C26 (progress after each page): the callback has been invoked for page k
\* only when the backend call for page k has returned.
C26_ProgressAfterPage ==
    \A j \in 1..Len(x.callbacks) :
        \E c \in 1..Len(x.calls) : x.calls[c] = x.callbacks[j]

\* ------------------------------------------------------------------ one document

\* the positions inside the extraction call and inside the synthesis
ExtractPcs == {"x_begin", "x_page", "x_call", "x_call_plain", "x_check",
               "x_local", "x_open", "x_write", "x_plain", "x_return"}
SynthPcs == {"inj_begin", "inj_page", "inj_save", "inj_saving", "replace"}

\* C27 (state machine of a document): in a batch run the extraction of a
\* document starts only from the loop (Discovered); page 1 follows the
\* rasterization and page k + 1 follows the check of page k; the backend is
\* called for the pages 1, 2, ... in order, each once; the transcript is
\* written and the call returns (Transcribed) only after all N pages; an
\* exception during the extraction (Failed) moves the loop to the next
\* document, so that no later step calls the backend or writes the transcript
\* for it; the synthesis starts only after a returned extraction, or at once
\* in an OCR-only run, never after Failed.
C27_DocumentStateMachine ==
    [][ Batch =>
        /\ (pc' \in ExtractPcs /\ pc \notin ExtractPcs) =>
              /\ pc = "loop" /\ pc' = "x_begin" /\ i' = i
              /\ x'.calls = <<>> /\ x'.i = 0
        /\ (pc' = "x_page") =>
              \/ pc = "x_begin" /\ x'.i = 0 /\ x'.total_pages = fs[pdf_file].pages
              \/ pc = "x_check" /\ x'.i = x.i + 1 /\ x'.i < x.total_pages
        /\ (x'.calls # x.calls /\ x'.calls # <<>>) =>
              /\ pc = "x_call"
              /\ Len(x.calls) = x.i
              /\ x'.calls = Append(x.calls, x.i + 1)
        /\ (pc \in ExtractPcs /\ fs' # fs /\ ev'.kind # "interrupted") =>
              /\ pc \in {"x_open", "x_write"}
              /\ x.calls = UpTo(x.total_pages)
              /\ fs' = WriteFile(fs, main_output_file(pdf_file),
                                 fs'[main_output_file(pdf_file)])
        /\ (pc \in ExtractPcs /\ ev'.kind = "returned") =>
              /\ pc = "x_return"
              /\ x.calls = UpTo(fs[pdf_file].pages)
              /\ Exists(fs, main_output_file(pdf_file))
              /\ Whole(fs[main_output_file(pdf_file)])
              /\ IF cfg.skip_ocr THEN pc' = "loop" /\ i' = i + 1
                                 ELSE pc' = "inj_begin" /\ i' = i
        /\ (pc \in ExtractPcs /\ ev'.kind = "raised") =>
              /\ pc' = "loop" /\ i' = i + 1 /\ errors' = errors + 1
              /\ fs' = fs
        /\ (pc' = "inj_begin") =>
              \/ pc = "x_return" /\ ev'.kind = "returned"
              \/ pc = "loop" /\ cfg.ocr_only
        /\ (pc \in SynthPcs) => pc' \notin ExtractPcs
        /\ (pc \in ExtractPcs \cup SynthPcs /\ pc' = "loop") => i' = i + 1
        /\ (pc = "loop" /\ pc' = "loop") => i' = i + 1
        /\ \A j, k \in 1..Len(pdf_files) : pdf_files[j] = pdf_files[k] => j = k ]_vars

\* C27 witness: the first document failed on a page, the second one has just
\* been transcribed, two pages in order, and goes on to the synthesis
C27_Witness ==
    /\ Batch
    /\ pc = "inj_begin" /\ ev.kind = "returned"
    /\ i = 2 /\ errors = 1 /\ processed = 0 /\ skipped = 0
    /\ ev.calls = <<1, 2>>

\* ------------------------------------------------------------------ the counters

\* C28 (summary accounting): while the loop runs, processed + skipped +
\* errors is the number of documents whose iteration has finished; a step
\* that finishes a document adds one to exactly one counter; a document
\* whose processing raised adds to errors and to nothing else; when the loop
\* ends without an interrupt the three sum to the number of documents found.
C28_SummaryAccounting ==
    [][ (Batch /\ pc \in {"loop"} \cup TryPcs) =>
        /\ processed + skipped + errors = i - 1
        /\ (i' = i + 1) =>
              \/ /\ processed' = processed + 1
                 /\ skipped' = skipped /\ errors' = errors
              \/ /\ skipped' = skipped + 1
                 /\ processed' = processed /\ errors' = errors
              \/ /\ errors' = errors + 1
                 /\ processed' = processed /\ skipped' = skipped
        /\ (i' # i + 1) =>
              /\ processed' = processed /\ skipped' = skipped /\ errors' = errors
              /\ i' = i
        /\ (ev'.kind = "raised") =>
              /\ i' = i + 1 /\ errors' = errors + 1
              /\ processed' = processed /\ skipped' = skipped
        /\ (ev'.kind = "complete") =>
              processed + skipped + errors = Len(pdf_files) ]_vars

\* C28 witness: a run over three documents has ended, one processed, one
\* skipped and one failed
C28_Witness ==
    /\ Batch
    /\ pc = "idle" /\ ev.kind = "complete"
    /\ Len(pdf_files) = 3
    /\ processed = 1 /\ skipped = 1 /\ errors = 1

\* ------------------------------------------------------------------ temporary files

\* C29 (temporary files): a '<name>.pdf.tmp' exists only in overwrite mode,
\* only while the synthesis of its own document is saving or about to
\* replace the source; between documents and after the loop has ended,
\* by completion, failure or interrupt, there is none, and without
\* overwrite there is never one.
C29_NoTemporaryLeftBehind ==
    Batch =>
        \A p \in DOMAIN fs :
            p.ext = ".pdf.tmp" =>
                /\ cfg.overwrite
                /\ pc \in {"inj_saving", "replace"}
                /\ p = output_pdf(pdf_file)

\* C29 witness: in overwrite mode the save of a document failed after its
\* temporary file was opened; the loop is at the next document and the
\* temporary file is gone
C29_Witness ==
    /\ Batch
    /\ cfg.overwrite
    /\ pc = "loop"
    /\ i >= 2
    /\ ev.kind = "raised" /\ ev.exc.type = "SaveError"
    /\ ~Exists(fs, WithSuffix(last_pdf, ".pdf.tmp"))

\* ------------------------------------------------------------------ discovery

\* C30 (outputs are not sources): every run finds the same documents,
\* whatever the runs before it have written: the documents found by a run
\* that has ended, and those of the run in hand, are those of the first run.
C30_OutputsNotReingested ==
    Batch =>
        /\ \A r \in 1..Len(hist) : hist[r].found = hist[1].found
        /\ (hist # <<>> /\ pc \in {"confirm", "loop"} \cup TryPcs) =>
              pdf_files = hist[1].found

\* ------------------------------------------------------------------ unknown modes

\* the mode values the pipeline names (extractor.py 228, 246, 323)
KnownModes == {"claude", "gemini", "spacy", "local"}

\* C31 (unknown modes are rejected): a call of extract_pdf_text_with_mode
\* with a mode outside claude, gemini, spacy and local and with the default
\* provider ends at once with ValueError('Unknown extraction mode'), with or
\* without a key: no backend is called and no file is written.
C31_UnknownModeRejected ==
    [][ (/\ cfg.entry = "direct"
         /\ cfg.mode \notin KnownModes
         /\ cfg.provider = "claude"
         /\ pc = "x_begin") =>
            /\ ev'.kind = "raised"
            /\ ev'.exc.type = "ValueError: Unknown extraction mode"
            /\ pc' \notin {"x_page", "x_call", "x_open"}
            /\ x'.calls = <<>>
            /\ fs' = fs ]_vars

====
